---- MODULE Spec2Model ----
(***************************************************************************)
(* Model of iword_frequency_analyzer.py: the tokenizer                     *)
(* extract_valid_words_from_text_and_convert_to_lower_case and the three   *)
(* static methods of IWordFrequencyAnalyzer.                               *)
(*                                                                         *)
(* A Python str is a sequence of code points (integers).  A Python value   *)
(* passed as an argument is a record [type, s, i]: s is the payload of a   *)
(* str, i the payload of an int.  The library keeps no state between       *)
(* calls; the state of the model is the text the caller holds, the call in *)
(* progress (op, word, n) and its outcome (result).                        *)
(***************************************************************************)
EXTENDS Integers, Sequences, FiniteSets

VARIABLES op, text, word, n, result

vars == <<op, text, word, n, result>>

----------------------------------------------------------------------------
(* Bounds of the explored inputs *)

MaxLen == 5
MaxWordLen == 1
MaxN == 2

(* Code points used in texts: 'A', 'a', 'b', '1', ' ', U+00E9 *)
Alphabet == {65, 97, 98, 49, 32, 233}

(* Code points used in query words: 'A', 'a', '1' *)
WordAlphabet == {65, 97, 49}

RECURSIVE SeqsUpTo(_, _)
SeqsUpTo(S, k) ==
    IF k = 0 THEN {<<>>}
    ELSE LET shorter == SeqsUpTo(S, k - 1)
         IN  shorter \cup {Append(s, c) : s \in {t \in shorter : Len(t) = k - 1}, c \in S}

----------------------------------------------------------------------------
(* Python values *)

PyStr(s) == [type |-> "str", s |-> s, i |-> 0]
PyInt(k) == [type |-> "int", s |-> <<>>, i |-> k]
PyNone == [type |-> "NoneType", s |-> <<>>, i |-> 0]

TextValues == {PyStr(s) : s \in SeqsUpTo(Alphabet, MaxLen)} \cup {PyInt(6), PyNone}
WordValues == {PyStr(s) : s \in SeqsUpTo(WordAlphabet, MaxWordLen)} \cup {PyInt(6), PyNone}
NValues == {PyInt(k) : k \in (0 - MaxN)..MaxN} \cup {PyStr(<<97>>), PyNone}

(* Outcome of a call: a returned value or a raised exception *)
NoResult == [kind |-> "none", msg |-> "", int |-> 0, words |-> <<>>, entries |-> <<>>]
Raise(exc, m) == [NoResult EXCEPT !.kind = exc, !.msg = m]
ReturnInt(k) == [NoResult EXCEPT !.kind = "return", !.int = k]
ReturnWords(ws) == [NoResult EXCEPT !.kind = "return", !.words = ws]
ReturnEntries(es) == [NoResult EXCEPT !.kind = "return", !.entries = es]

----------------------------------------------------------------------------
(* Tokenizer *)

(* defect: the pattern \w+ in place of [A-Za-z]+ lets digits into a word *)
IsLetter_WithDigits(c) == (c >= 48 /\ c <= 57) \/ (c >= 65 /\ c <= 90) \/ (c >= 97 /\ c <= 122)

(* the character class [A-Za-z] *)
IsLetter(c) == (c >= 65 /\ c <= 90) \/ (c >= 97 /\ c <= 122)

(* str.lower() on one code point of a matched word *)
LowerChar(c) == IF c >= 65 /\ c <= 90 THEN c + 32 ELSE c

lower(w) == [k \in 1..Len(w) |-> LowerChar(w[k])]

(* greedy [A-Za-z]+ : index of the last character of the match starting at i *)
RECURSIVE MatchEnd(_, _)
MatchEnd(s, i) ==
    IF i < Len(s) /\ IsLetter(s[i + 1]) THEN MatchEnd(s, i + 1) ELSE i

(* re.findall(r'[A-Za-z]+', s) scanning from position i *)
RECURSIVE FindAllFrom(_, _)
FindAllFrom(s, i) ==
    IF i > Len(s) THEN <<>>
    ELSE IF IsLetter(s[i])
         THEN <<SubSeq(s, i, MatchEnd(s, i))>> \o FindAllFrom(s, MatchEnd(s, i) + 1)
         ELSE FindAllFrom(s, i + 1)

findall(s) == FindAllFrom(s, 1)

(* defect: the emptiness check is missing *)
extract_NoEmptyCheck(t) ==
    IF t.type # "str"
    THEN Raise("TypeError", "Invalid input text: Input text should be a string")
    ELSE LET valid_words_list == findall(t.s)
         IN  ReturnWords([k \in 1..Len(valid_words_list) |-> lower(valid_words_list[k])])

extract_valid_words_from_text_and_convert_to_lower_case(t) ==
    IF t.type # "str"
    THEN Raise("TypeError", "Invalid input text: Input text should be a string")
    ELSE IF Len(t.s) = 0
    THEN Raise("ValueError", "Invalid input text: Input text should not be empty")
    ELSE LET valid_words_list == findall(t.s)
         IN  ReturnWords([k \in 1..Len(valid_words_list) |-> lower(valid_words_list[k])])

----------------------------------------------------------------------------
(* collections.Counter: entries [word, count] in first-insertion order *)

IndexOf(entries, w) ==
    IF \E k \in 1..Len(entries) : entries[k].word = w
    THEN CHOOSE k \in 1..Len(entries) : entries[k].word = w
    ELSE 0

(* defect: a repeated word gets a second entry instead of an incremented count *)
CounterAdd_AlwaysAppend(entries, w) == Append(entries, [word |-> w, count |-> 1])

CounterAdd(entries, w) ==
    LET i == IndexOf(entries, w)
    IN  IF i = 0
        THEN Append(entries, [word |-> w, count |-> 1])
        ELSE [entries EXCEPT ![i].count = @ + 1]

RECURSIVE Counter(_)
Counter(words) ==
    IF words = <<>> THEN <<>>
    ELSE CounterAdd(Counter(SubSeq(words, 1, Len(words) - 1)), words[Len(words)])

(* Counter.__getitem__ : a missing key counts 0 *)
CounterGet(entries, w) ==
    LET i == IndexOf(entries, w)
    IN  IF i = 0 THEN 0 ELSE entries[i].count

----------------------------------------------------------------------------
(* Ordering *)

(* str < str : lexicographic on code points, a proper prefix is smaller *)
RECURSIVE StrLess(_, _)
StrLess(a, b) ==
    IF b = <<>> THEN FALSE
    ELSE IF a = <<>> THEN TRUE
    ELSE IF a[1] # b[1] THEN a[1] < b[1]
    ELSE StrLess(Tail(a), Tail(b))

(* defect: the key (x[1], x[0]), the count not negated *)
NegCountWordLess_CountAscending(x, y) ==
    \/ x.count < y.count
    \/ x.count = y.count /\ StrLess(x.word, y.word)

(* key=lambda x: (-x[1], x[0]) : tuple comparison of the keys of x and y *)
NegCountWordLess(x, y) ==
    \/ (0 - x.count) < (0 - y.count)
    \/ (0 - x.count) = (0 - y.count) /\ StrLess(x.word, y.word)

(* defect: reverse=True is missing *)
CountReverseLess_NoReverse(x, y) == x.count < y.count

(* key=itemgetter(1), reverse=True : x goes strictly before y *)
CountReverseLess(x, y) == x.count > y.count

Before(x, y, key) ==
    IF key = "count_reverse" THEN CountReverseLess(x, y) ELSE NegCountWordLess(x, y)

(* stable insertion of x, the later element, into an already sorted list *)
InsertSorted(lst, x, key) ==
    LET later == {k \in 1..Len(lst) : Before(x, lst[k], key)}
        p == IF later = {} THEN Len(lst) + 1
             ELSE CHOOSE k \in later : \A j \in later : k <= j
    IN  SubSeq(lst, 1, p - 1) \o <<x>> \o SubSeq(lst, p, Len(lst))

(* sorted(items, key=...) : a stable sort *)
RECURSIVE sorted(_, _)
sorted(items, key) ==
    IF items = <<>> THEN <<>>
    ELSE InsertSorted(sorted(SubSeq(items, 1, Len(items) - 1), key), items[Len(items)], key)

(* defect: a negative bound is clamped to 0 *)
SliceTo_ClampNegative(lst, k) ==
    SubSeq(lst, 1, IF k < 0 THEN 0 ELSE IF k < Len(lst) THEN k ELSE Len(lst))

(* lst[:k] *)
SliceTo(lst, k) ==
    IF k >= 0
    THEN SubSeq(lst, 1, IF k < Len(lst) THEN k ELSE Len(lst))
    ELSE SubSeq(lst, 1, IF Len(lst) + k > 0 THEN Len(lst) + k ELSE 0)

----------------------------------------------------------------------------
(* The three methods of IWordFrequencyAnalyzer *)

calculate_highest_frequency(t) ==
    LET extracted == extract_valid_words_from_text_and_convert_to_lower_case(t)
    IN  IF extracted.kind # "return" THEN extracted
        ELSE LET word_frequencies == Counter(extracted.words)
                 sorted_word_frequencies == sorted(word_frequencies, "count_reverse")
             IN  IF sorted_word_frequencies = <<>>
                 THEN ReturnInt(0)
                 ELSE ReturnInt(sorted_word_frequencies[1].count)

(* defect: the query word is lowercased before the lookup *)
calculate_frequency_for_word_LowerQuery(t, w) ==
    IF w.type # "str"
    THEN Raise("TypeError", "Invalid input: word should be a string")
    ELSE LET extracted == extract_valid_words_from_text_and_convert_to_lower_case(t)
         IN  IF extracted.kind # "return" THEN extracted
             ELSE ReturnInt(CounterGet(Counter(extracted.words), lower(w.s)))

(* defect: the text is validated before the type of word is checked *)
calculate_frequency_for_word_TextFirst(t, w) ==
    LET extracted == extract_valid_words_from_text_and_convert_to_lower_case(t)
    IN  IF extracted.kind # "return" THEN extracted
        ELSE IF w.type # "str"
        THEN Raise("TypeError", "Invalid input: word should be a string")
        ELSE ReturnInt(CounterGet(Counter(extracted.words), w.s))

(* defect: the words are counted as matched, not lowercased *)
calculate_frequency_for_word_RawWords(t, w) ==
    IF w.type # "str"
    THEN Raise("TypeError", "Invalid input: word should be a string")
    ELSE LET extracted == extract_valid_words_from_text_and_convert_to_lower_case(t)
         IN  IF extracted.kind # "return" THEN extracted
             ELSE ReturnInt(CounterGet(Counter(findall(t.s)), w.s))

calculate_frequency_for_word(t, w) ==
    IF w.type # "str"
    THEN Raise("TypeError", "Invalid input: word should be a string")
    ELSE LET extracted == extract_valid_words_from_text_and_convert_to_lower_case(t)
         IN  IF extracted.kind # "return" THEN extracted
             ELSE ReturnInt(CounterGet(Counter(extracted.words), w.s))

calculate_most_frequent_n_words(t, k) ==
    IF k.type # "int"
    THEN Raise("TypeError", "Invalid input: n should be an integer")
    ELSE LET extracted == extract_valid_words_from_text_and_convert_to_lower_case(t)
         IN  IF extracted.kind # "return" THEN extracted
             ELSE LET word_frequencies == Counter(extracted.words)
                      sorted_word_frequencies == sorted(word_frequencies, "neg_count_word")
                  IN  ReturnEntries(SliceTo(sorted_word_frequencies, k.i))

----------------------------------------------------------------------------
(* State machine: the caller holds a text in memory, invokes one operation *)
(* on it at a time and reads the outcome; nothing of a call survives once  *)
(* the outcome has been consumed                                           *)

Init ==
    /\ text \in TextValues
    /\ op = "none"
    /\ word = PyNone
    /\ n = PyNone
    /\ result = NoResult

CallExtract ==
    /\ op = "none"
    /\ op' = "extract"
    /\ word' = PyNone
    /\ n' = PyNone
    /\ result' = extract_valid_words_from_text_and_convert_to_lower_case(text)
    /\ UNCHANGED text

CallHighestFrequency ==
    /\ op = "none"
    /\ op' = "highest"
    /\ word' = PyNone
    /\ n' = PyNone
    /\ result' = calculate_highest_frequency(text)
    /\ UNCHANGED text

CallFrequencyForWord ==
    /\ op = "none"
    /\ \E w \in WordValues :
        /\ op' = "frequency"
        /\ word' = w
        /\ n' = PyNone
        /\ result' = calculate_frequency_for_word(text, w)
    /\ UNCHANGED text

CallMostFrequentNWords ==
    /\ op = "none"
    /\ \E k \in NValues :
        /\ op' = "most_frequent"
        /\ word' = PyNone
        /\ n' = k
        /\ result' = calculate_most_frequent_n_words(text, k)
    /\ UNCHANGED text

(* the call has returned or raised; its locals are gone *)
Discard ==
    /\ op # "none"
    /\ op' = "none"
    /\ word' = PyNone
    /\ n' = PyNone
    /\ result' = NoResult
    /\ UNCHANGED text

Next ==
    \/ CallExtract
    \/ CallHighestFrequency
    \/ CallFrequencyForWord
    \/ CallMostFrequentNWords
    \/ Discard

Spec == Init /\ [][Next]_vars

----------------------------------------------------------------------------
(* Vocabulary of the properties, stated without the operators of the       *)
(* counting and ranking code                                               *)

Returned == result.kind = "return"

ValidText == text.type = "str" /\ Len(text.s) > 0

AsciiLetter(c) == c \in (65..90) \cup (97..122)

(* the words of the current text, in text order *)
ExtractedWords == extract_valid_words_from_text_and_convert_to_lower_case(text).words

DistinctWords == {ExtractedWords[k] : k \in 1..Len(ExtractedWords)}

(* number of extracted words equal to w *)
Occurrences(w) == Cardinality({k \in 1..Len(ExtractedWords) : ExtractedWords[k] = w})

(* the tally of a word sequence: each distinct word with its number of occurrences *)
Tally(ws) ==
    [w \in {ws[k] : k \in 1..Len(ws)} |-> Cardinality({k \in 1..Len(ws) : ws[k] = w})]

(* a < b lexicographically: a is a proper prefix of b, or a is smaller at the first difference *)
LexBefore(a, b) ==
    \E k \in 1..Len(b) :
        /\ k <= Len(a) + 1
        /\ \A j \in 1..(k - 1) : a[j] = b[j]
        /\ (k = Len(a) + 1 \/ a[k] < b[k])

(* v is ranked before w: higher count, or equal count and smaller word *)
RankedBefore(tally, v, w) ==
    \/ tally[v] > tally[w]
    \/ tally[v] = tally[w] /\ LexBefore(v, w)

(* position of w in the fully sorted sequence of the distinct words *)
Rank(tally, w) == 1 + Cardinality({v \in DOMAIN tally : RankedBefore(tally, v, w)})

(* the result is the first len entries of the fully sorted sequence *)
IsRankedPrefix(tally, entries, len) ==
    /\ Len(entries) = len
    /\ \A k \in 1..Len(entries) :
        /\ entries[k].word \in DOMAIN tally
        /\ Rank(tally, entries[k].word) = k
        /\ entries[k].count = tally[entries[k].word]

Min(a, b) == IF a < b THEN a ELSE b
Max(a, b) == IF a > b THEN a ELSE b

----------------------------------------------------------------------------
(* C1: the list returned by calculate_most_frequent_n_words is sorted by   *)
(* count descending and, for equal counts, by word ascending: every        *)
(* adjacent pair (w1,c1),(w2,c2) has c1 > c2, or c1 = c2 and w1 < w2.      *)
C1_SortedByCountThenWord ==
    (op = "most_frequent" /\ Returned) =>
        \A k \in 1..(Len(result.entries) - 1) :
            LET x == result.entries[k]
                y == result.entries[k + 1]
            IN  \/ x.count > y.count
                \/ x.count = y.count /\ LexBefore(x.word, y.word)

(* a more frequent word precedes an alphabetically smaller, rarer one *)
C1_Witness ==
    /\ op = "most_frequent" /\ Returned
    /\ Len(result.entries) >= 2
    /\ result.entries[1].count > result.entries[2].count
    /\ LexBefore(result.entries[2].word, result.entries[1].word)

(* C2 as stated: the result is the first n entries of the fully sorted     *)
(* sequence, of length min(n, D) for n >= 0, and no entries for n zero or  *)
(* negative.                                                               *)
C2_Original ==
    (op = "most_frequent" /\ Returned) =>
        LET tally == Tally(ExtractedWords)
            D == Cardinality(DOMAIN tally)
        IN  IsRankedPrefix(tally, result.entries, IF n.i >= 0 THEN Min(n.i, D) ELSE 0)

(* C2 amended: the result is a prefix of the fully sorted sequence, of     *)
(* length min(n, D) for n >= 0 and of length max(D + n, 0) for negative n  *)
(* (all but the last -n entries).                                          *)
C2_FirstNOfSorted ==
    (op = "most_frequent" /\ Returned) =>
        LET tally == Tally(ExtractedWords)
            D == Cardinality(DOMAIN tally)
        IN  IsRankedPrefix(tally, result.entries,
                           IF n.i >= 0 THEN Min(n.i, D) ELSE Max(D + n.i, 0))

(* a negative n that leaves entries in the result *)
C2_Witness ==
    /\ op = "most_frequent" /\ Returned
    /\ n.i < 0
    /\ Len(result.entries) >= 1
    /\ Len(result.entries) < Cardinality(DistinctWords)

(* C3: calculate_highest_frequency returns the maximum occurrence count    *)
(* over the distinct extracted words, and 0 when the text has no words.    *)
C3_HighestIsMax ==
    (op = "highest" /\ Returned) =>
        LET tally == Tally(ExtractedWords)
        IN  IF DOMAIN tally = {}
            THEN result.int = 0
            ELSE /\ \E w \in DOMAIN tally : tally[w] = result.int
                 /\ \A w \in DOMAIN tally : tally[w] <= result.int

(* the first word of the text is not the most frequent one *)
C3_Witness ==
    /\ op = "highest" /\ Returned
    /\ result.int = 2
    /\ Occurrences(ExtractedWords[1]) = 1

C5_CaseInsensitiveQuery ==
    (op = "frequency" /\ Returned) =>
        LET ws == ExtractedWords
            folded == [j \in 1..Len(word.s) |->
                          IF word.s[j] \in 65..90 THEN word.s[j] + 32 ELSE word.s[j]]
        IN  result.int = Cardinality({k \in 1..Len(ws) : ws[k] = folded})

----------------------------------------------------------------------------
(* Maximal runs of ASCII letters of the current text *)

RunStarts ==
    {i \in 1..Len(text.s) :
        AsciiLetter(text.s[i]) /\ (i = 1 \/ ~AsciiLetter(text.s[i - 1]))}

(* last position of the maximal run that starts at i *)
RunEnd(i) ==
    CHOOSE e \in i..Len(text.s) :
        /\ \A j \in i..e : AsciiLetter(text.s[j])
        /\ (e = Len(text.s) \/ ~AsciiLetter(text.s[e + 1]))

(* number of runs that start at or before i *)
RunNumber(i) == Cardinality({j \in RunStarts : j <= i})

(* C6: for a non-empty string the tokenizer returns, in text order, one    *)
(* word per maximal run of ASCII letters, lowercased; every other          *)
(* character separates runs and is dropped, so every word is non-empty and *)
(* made of lowercase ASCII letters only.                                   *)
C6_OneWordPerMaximalRun ==
    (op = "extract" /\ ValidText) =>
        /\ Returned
        /\ Len(result.words) = Cardinality(RunStarts)
        /\ \A i \in RunStarts :
            LET w == result.words[RunNumber(i)]
            IN  /\ Len(w) = RunEnd(i) - i + 1
                /\ \A j \in 1..Len(w) :
                    LET c == text.s[i + j - 1]
                    IN  w[j] = IF c \in 65..90 THEN c + 32 ELSE c
        /\ \A k \in 1..Len(result.words) :
            /\ Len(result.words[k]) >= 1
            /\ \A j \in 1..Len(result.words[k]) : result.words[k][j] \in 97..122

(* an uppercase letter, and a digit and a non-ASCII letter that each split two runs *)
C6_Witness ==
    /\ op = "extract" /\ Returned
    /\ Len(result.words) = 3
    /\ \E i \in 1..Len(text.s) : text.s[i] \in 65..90
    /\ \E i \in 2..(Len(text.s) - 1) :
        text.s[i] = 49 /\ AsciiLetter(text.s[i - 1]) /\ AsciiLetter(text.s[i + 1])
    /\ \E i \in 2..(Len(text.s) - 1) :
        text.s[i] = 233 /\ AsciiLetter(text.s[i - 1]) /\ AsciiLetter(text.s[i + 1])

----------------------------------------------------------------------------
WellTyped ==
    /\ text.type = "str"
    /\ op = "frequency" => word.type = "str"
    /\ op = "most_frequent" => n.type = "int"

NoLetters == \A i \in 1..Len(text.s) : ~AsciiLetter(text.s[i])

(* C7: with well-typed arguments the empty string makes each of the three  *)
(* methods raise ValueError, and a non-empty text without ASCII letters is *)
(* no error: the methods return 0, 0 and the empty list.                   *)
C7_EmptyVersusNoWords ==
    (op \in {"highest", "frequency", "most_frequent"} /\ WellTyped) =>
        /\ text.s = <<>> =>
            /\ result.kind = "ValueError"
            /\ result.msg = "Invalid input text: Input text should not be empty"
        /\ (text.s # <<>> /\ NoLetters) =>
            /\ Returned
            /\ op \in {"highest", "frequency"} => result.int = 0
            /\ op = "most_frequent" => result.entries = <<>>

(* the empty text raises *)
C7_Witness ==
    /\ op = "frequency" /\ WellTyped
    /\ text.s = <<>>
    /\ word.s # <<>>
    /\ result.kind = "ValueError"

(* C8: a wrongly typed argument (text not a str, word not a str, n not an  *)
(* int) raises TypeError whatever the other arguments are, also when text  *)
(* is the empty string; no value is returned.                              *)
C8_TypeErrorFirst ==
    (op \in {"highest", "frequency", "most_frequent"} /\ ~WellTyped) =>
        /\ result.kind = "TypeError"
        /\ result.int = 0 /\ result.words = <<>> /\ result.entries = <<>>

(* a non-string word together with the empty text *)
C8_Witness ==
    /\ op = "frequency"
    /\ text.type = "str" /\ text.s = <<>>
    /\ word.type # "str"
    /\ result.kind = "TypeError"

----------------------------------------------------------------------------
(* lowercase query words that need not occur in the text *)
LowercaseWords == SeqsUpTo({97, 98}, MaxWordLen)

HasEntry(entries, w) == \E k \in 1..Len(entries) : entries[k].word = w

EntryCount(entries, w) ==
    LET k == CHOOSE j \in 1..Len(entries) : entries[j].word = w
    IN  entries[k].count

(* C9: for a valid text and a lowercase word w, calculate_frequency_for_   *)
(* word(text, w) is the count paired with w in the complete list of        *)
(* calculate_most_frequent_n_words (n at least the number of distinct      *)
(* words), and is 0 exactly when w has no entry in that list.              *)
C9_LookupAgreesWithTopN ==
    (op = "most_frequent" /\ Returned /\ n.i >= Cardinality(DistinctWords)) =>
        \A w \in DistinctWords \cup LowercaseWords :
            LET f == calculate_frequency_for_word(text, PyStr(w))
            IN  /\ f.kind = "return"
                /\ HasEntry(result.entries, w) => f.int = EntryCount(result.entries, w)
                /\ f.int = 0 <=> ~HasEntry(result.entries, w)

(* a complete list of two words, one of them written in both cases in the text *)
C9_Witness ==
    /\ op = "most_frequent" /\ Returned
    /\ n.i >= Cardinality(DistinctWords)
    /\ Len(result.entries) = 2
    /\ result.entries[1].count = 2
    /\ \E i \in 1..Len(text.s) : text.s[i] \in 65..90

RECURSIVE SumCounts(_)
SumCounts(entries) ==
    IF entries = <<>> THEN 0
    ELSE entries[1].count + SumCounts(Tail(entries))

(* C10: the frequency mapping has unique keys, no count 0, and its counts  *)
(* sum to the number of extracted words; so do the counts of the complete  *)
(* list of calculate_most_frequent_n_words.                                *)
C10_CountsSumToWordCount ==
    (op = "most_frequent" /\ Returned) =>
        LET ws == ExtractedWords
        IN  n.i >= Cardinality({ws[k] : k \in 1..Len(ws)}) =>
                /\ \A j, k \in 1..Len(result.entries) :
                    result.entries[j].word = result.entries[k].word => j = k
                /\ \A k \in 1..Len(result.entries) : result.entries[k].count >= 1
                /\ SumCounts(result.entries) = Len(ws)

(* three words, two of them equal *)
C10_Witness ==
    /\ op = "most_frequent" /\ Returned
    /\ n.i >= Cardinality(DistinctWords)
    /\ Len(ExtractedWords) = 3
    /\ Len(result.entries) = 2

====
